---- MODULE Spec2Model ----
(***************************************************************************)
(* MedicalSeg: the evaluation driver (medicalseg/core/val.py, evaluate)   *)
(* and the intensity normalizers (tools/preprocess_utils/values.py:       *)
(* label_remap, Normalize, HUNorm).                                        *)
(*                                                                         *)
(* Two specifications share the module.  SpecNorm applies one normalizer  *)
(* to an input volume drawn from a bounded set.  Spec runs evaluate() on  *)
(* nranks processes over a bounded dataset.                                *)
(***************************************************************************)
EXTENDS Integers, Sequences, FiniteSets, TLC

(* ------------------------------ bounds --------------------------------- *)
\* longest volume (flattened to a sequence of voxels) given to a normalizer
MaxLen == 2
\* largest dataset size
MaxN == 2
\* largest number of ranks (processes running evaluate())
MaxRanks == 2
\* evaluate() calls each rank makes
MaxCalls == 2

(* --------------------------- exact arithmetic -------------------------- *)
\* Floating-point numbers are modelled as exact rationals n/d, d > 0, in
\* lowest terms, so that equal numbers are equal records.
Abs(x) == IF x < 0 THEN -x ELSE x

RECURSIVE GCD(_, _)
GCD(a, b) == IF b = 0 THEN a ELSE GCD(b, a % b)

Rat(n, d) ==
    LET s == IF d < 0 THEN -1 ELSE 1
        g == GCD(Abs(n), Abs(d))
    IN  [n |-> (s * n) \div g, d |-> (s * d) \div g]

RatInt(i) == [n |-> i, d |-> 1]
RatAdd(a, b) == Rat(a.n * b.d + b.n * a.d, a.d * b.d)

(* ------------------------- voxels and volumes -------------------------- *)
\* A voxel is a float: a finite number (k = "fin", value n/d), NaN, an
\* infinity, or one of the two huge finite numbers (+-float max) that
\* np.nan_to_num puts in place of the infinities.
Fin(n, d) == [k |-> "fin"] @@ Rat(n, d)
Special(kind) == [k |-> kind, n |-> 0, d |-> 1]
NaN == Special("nan")
PInf == Special("pinf")
NInf == Special("ninf")
PHuge == Special("phuge")
NHuge == Special("nhuge")

IsFin(v) == v.k = "fin"

\* the voxel values inputs are drawn from: -1, 0, 1/2, 1, 2, NaN, +-inf
Voxels == {Fin(-1, 1), Fin(0, 1), Fin(1, 2), Fin(1, 1), Fin(2, 1), NaN, PInf, NInf}

RECURSIVE SeqsUpTo(_, _)
SeqsUpTo(S, len) ==
    IF len = 0 THEN {<<>>}
    ELSE LET shorter == SeqsUpTo(S, len - 1)
         IN  shorter \cup {Append(s, x) : s \in {t \in shorter : Len(t) = len - 1}, x \in S}

Volumes == SeqsUpTo(Voxels, MaxLen)

(* ----------------------- float operations (numpy) ---------------------- *)
\* v - c for a finite scalar c: NaN and the infinities propagate, and a
\* huge finite number absorbs the small c.
FSub(v, c) == IF IsFin(v) THEN Fin(v.n - c * v.d, v.d) ELSE v

Flip(v) ==
    CASE v.k = "pinf" -> NInf
      [] v.k = "ninf" -> PInf
      [] v.k = "phuge" -> NHuge
      [] v.k = "nhuge" -> PHuge
      [] OTHER -> v

\* v / r for the scalar r = max - min (an integer here).  Division by zero
\* is numpy's: x/0 is +-inf, 0/0 is NaN.
FDiv(v, r) ==
    IF r = 0
    THEN CASE IsFin(v) /\ v.n > 0 -> PInf
           [] IsFin(v) /\ v.n < 0 -> NInf
           [] IsFin(v) /\ v.n = 0 -> NaN
           [] v.k = "phuge" -> PInf
           [] v.k = "nhuge" -> NInf
           [] OTHER -> v
    ELSE IF IsFin(v) THEN Fin(v.n, v.d * r)
         ELSE IF r > 0 THEN v ELSE Flip(v)

\* np.clip(x, 0, 1): NaN stays NaN
NoClip(v) == v
Clip01(v) ==
    CASE v.k = "nan" -> v
      [] v.k \in {"pinf", "phuge"} -> Fin(1, 1)
      [] v.k \in {"ninf", "nhuge"} -> Fin(0, 1)
      [] OTHER -> IF v.n <= 0 THEN Fin(0, 1)
                  ELSE IF v.n >= v.d THEN Fin(1, 1) ELSE v

\* np.nan_to_num(x, nan=nan): NaN -> nan, +inf -> float max, -inf -> float min
NanToNumZero(v, nan) ==
    CASE v.k = "nan" -> Fin(0, 1)
      [] v.k = "pinf" -> PHuge
      [] v.k = "ninf" -> NHuge
      [] OTHER -> v
NanToNum(v, nan) ==
    CASE v.k = "nan" -> Fin(nan, 1)
      [] v.k = "pinf" -> PHuge
      [] v.k = "ninf" -> NHuge
      [] OTHER -> v

(* ---------------------------- the normalizers -------------------------- *)
\* A call's outcome: caller = the values the caller's object holds after
\* the call, ret = the returned array, alias = the returned array is the
\* caller's object, raised = the call ended in an exception.
Outcome(caller, ret, alias, raised) ==
    [caller |-> caller, ret |-> ret, alias |-> alias, raised |-> raised]

\* Normalize: `image = (image - min_val) / (max_val - min_val)` binds a new
\* array, which np.clip(..., out=image) then clips; the argument is only read.
NormalizeInPlace(image, isNd, min_val, max_val) ==
    LET scale(v) == FDiv(FSub(v, min_val), max_val - min_val)
        out == [i \in 1..Len(image) |-> Clip01(scale(image[i]))]
    IN  Outcome(IF isNd THEN out ELSE image, out, isNd, FALSE)
Normalize(image, isNd, min_val, max_val) ==
    LET scale(v) == FDiv(FSub(v, min_val), max_val - min_val)
        scaled == [i \in 1..Len(image) |-> scale(image[i])]
        clipped == [i \in 1..Len(scaled) |-> Clip01(scaled[i])]
    IN  Outcome(image, clipped, FALSE, FALSE)

\* HUNorm: a non-ndarray argument is copied by np.array; np.nan_to_num with
\* copy=False then writes into `image` itself, the caller's array when the
\* argument was an ndarray.
HU_min_default == -1000
HU_max_default == 600
HU_nan_default == -2000

HUNorm(image, isNd, HU_min, HU_max, HU_nan) ==
    LET fix(v) == NanToNum(v, HU_nan)
        fixed == [i \in 1..Len(image) |-> fix(image[i])]
        scale(v) == FDiv(FSub(v, HU_min), HU_max - HU_min)
        scaled == [i \in 1..Len(fixed) |-> scale(fixed[i])]
        clipped == [i \in 1..Len(scaled) |-> Clip01(scaled[i])]
    IN  Outcome(IF isNd THEN fixed ELSE image, clipped, FALSE, FALSE)

\* label[label == key] = val.  On an ndarray the comparison is elementwise
\* and the mask selects the voxels to overwrite.  On a list the comparison
\* is the single value False, and label[False] = val overwrites element 0
\* (IndexError on an empty list).
VoxEq(v, key) == IsFin(v) /\ v.n = key * v.d

AssignWhere(label, isNd, key, val) ==
    IF isNd
    THEN [i \in 1..Len(label) |-> IF VoxEq(label[i], key) THEN Fin(val, 1) ELSE label[i]]
    ELSE [label EXCEPT ![1] = Fin(val, 1)]

\* A dict is given as the sequence of its (key, val) items in iteration
\* order.  The loop rewrites `label` itself, one item at a
\* time, each pass scanning the values the earlier passes left.
RECURSIVE RemapItems(_, _, _)
RemapItems(label, isNd, items) ==
    IF items = <<>> THEN Outcome(label, label, TRUE, FALSE)
    ELSE IF ~isNd /\ label = <<>> THEN Outcome(label, <<>>, FALSE, TRUE)
    ELSE RemapItems(AssignWhere(label, isNd, items[1][1], items[1][2]), isNd, Tail(items))

\* map_dict defaults to None, and None.items() raises AttributeError.
Dict(items) == [isNone |-> FALSE, items |-> items]
None == [isNone |-> TRUE, items |-> <<>>]

label_remap(label, isNd, map_dict) ==
    IF map_dict.isNone THEN Outcome(label, <<>>, FALSE, TRUE)
    ELSE RemapItems(label, isNd, map_dict.items)

(* ------------------- the normalizers as a state machine ---------------- *)
VARIABLES
    npc,      \* "ready": before the call; "returned" / "raised": after it; "off"
    fn,       \* the function called
    args,     \* its scalar arguments
    isNd,     \* the argument is an ndarray (else a list)
    image0,   \* the values of the caller's object before the call
    image,    \* the values of the caller's object now
    ret,      \* the returned array
    alias     \* the returned array is the caller's object

normVars == <<npc, fn, args, isNd, image0, image, ret, alias>>

\* scalar arguments the calls are made with
MinVals == {-1, 0, 1}
MaxVals == {0, 1}
NanVals == {-2, 0}
HUArgs == (MinVals \X MaxVals \X NanVals)
              \cup {<<HU_min_default, HU_max_default, HU_nan_default>>}
Keys == {1, 2}
Vals == {1, 2, 3}
Items == Keys \X Vals
MapDicts ==
    {None} \cup {Dict(<<>>)} \cup {Dict(<<it>>) : it \in Items}
        \cup {Dict(<<p[1], p[2]>>) : p \in {q \in Items \X Items : q[1][1] # q[2][1]}}

NoArgs == [lo |-> 0, hi |-> 0, nan |-> 0, map_dict |-> None]

NormReady ==
    /\ npc = "ready"
    /\ fn = "none"
    /\ args = NoArgs
    /\ isNd \in BOOLEAN
    /\ image0 \in Volumes
    /\ image = image0
    /\ ret = <<>>
    /\ alias = FALSE

NormOff ==
    /\ npc = "off"
    /\ fn = "none"
    /\ args = NoArgs
    /\ isNd = TRUE
    /\ image0 = <<>>
    /\ image = <<>>
    /\ ret = <<>>
    /\ alias = FALSE

Finish(name, a, out) ==
    /\ npc' = IF out.raised THEN "raised" ELSE "returned"
    /\ fn' = name
    /\ args' = a
    /\ image' = out.caller
    /\ ret' = out.ret
    /\ alias' = out.alias
    /\ UNCHANGED <<isNd, image0>>

CallNormalize ==
    /\ npc = "ready"
    /\ \E lo \in MinVals, hi \in MaxVals :
          Finish("Normalize", [NoArgs EXCEPT !.lo = lo, !.hi = hi],
                 Normalize(image, isNd, lo, hi))

CallHUNorm ==
    /\ npc = "ready"
    /\ \E a \in HUArgs :
          Finish("HUNorm", [NoArgs EXCEPT !.lo = a[1], !.hi = a[2], !.nan = a[3]],
                 HUNorm(image, isNd, a[1], a[2], a[3]))

CallLabelRemap ==
    /\ npc = "ready"
    /\ \E m \in MapDicts :
          Finish("label_remap", [NoArgs EXCEPT !.map_dict = m],
                 label_remap(image, isNd, m))

(* ------------------------------ evaluate() ----------------------------- *)
\* An array as np.save stores it: the element type and the values (one
\* number stands for the volume).
Arr(dtype, val) == [dtype |-> dtype, val |-> val]

\* astype('int64') truncates toward zero and sets the element type
Trunc(q) == Rat((IF q.n < 0 THEN -1 ELSE 1) * (Abs(q.n) \div q.d), 1)
AsInt64(a) == Arr("int64", Trunc(a.val))

\* tensor.clone().detach().numpy() copies the array; np.save writes its
\* element type and values, np.load reads them back.
NpSave(a) == [npy_dtype |-> a.dtype, npy_data |-> a.val]
NpLoad(f) == Arr(f.npy_dtype, f.npy_data)

\* A dataset sample together with what the external collaborators answer
\* for it: infer.inference gives (pred, logits), loss_computation gives the
\* loss and the per-class Dice vector.
Samples == {
    [im |-> Arr("float32", RatInt(7)), label |-> Arr("uint8", RatInt(1)),
     pred |-> Arr("int64", RatInt(1)), logits |-> 11,
     loss |-> Fin(1, 2), dice |-> <<Fin(1, 1), Fin(0, 1)>>],
    [im |-> Arr("float32", RatInt(9)), label |-> Arr("int64", RatInt(2)),
     pred |-> Arr("int64", RatInt(1)), logits |-> 12,
     loss |-> Fin(3, 2), dice |-> <<Fin(1, 2), Fin(0, 1)>>] }

Datasets == SeqsUpTo(Samples, MaxN)

VARIABLES
    dataset,             \* eval_dataset
    nranks,              \* ParallelEnv().nranks
    print_detail,        \* argument
    auc_roc,             \* argument
    save_dir,            \* argument: TRUE when a directory is given, FALSE for None
    pc,                  \* per rank: "idle", "loop", "save", "accumulate",
                         \*           "raised", "off"
    calls,               \* per rank: evaluate() calls begun
    total_iters,         \* per rank: len(loader)
    iter,                \* per rank: the loop's iteration index
    cur,                 \* per rank: im, label, pred, logits of the iteration
    mdice,               \* per rank
    channel_dice_array,  \* per rank
    loss_all,            \* per rank
    logits_all,          \* per rank (None is <<>>)
    label_all,           \* per rank (None is <<>>)
    returned,            \* per rank: the result_dict of each call that returned
    err,                 \* per rank: the exception that ended the call
    inferLog,            \* per rank: (iter, dataset index) of each infer.inference call
    files,               \* save_dir: file name -> content
    wrote,               \* file name -> dataset index of the sample last written
    saved,               \* per rank: (file name, content) of each np.save of the call
    reports              \* reporting calls issued: (rank, kind)

config == <<dataset, nranks, print_detail, auc_roc, save_dir>>
locals == <<total_iters, iter, cur, mdice, channel_dice_array, loss_all,
            logits_all, label_all>>
evalVars == <<config, pc, calls, locals, returned, err, inferLog, files, wrote, saved,
              reports>>
vars == <<normVars, evalVars>>

Ranks == 0..(nranks - 1)

(* the distributed batch sampler: batch_size 1, no shuffle, no drop_last *)
CeilDiv(a, b) == (a + b - 1) \div b
Min(a, b) == IF a <= b THEN a ELSE b

\* samples per rank, and len(loader)
NumSamples == CeilDiv(Len(dataset), nranks)
TotalSize == NumSamples * nranks

\* indices 0..N-1, padded with the first total_size - N of them
PaddedIndices ==
    LET N == Len(dataset)
        indices == [i \in 1..N |-> i - 1]
    IN  indices \o SubSeq(indices, 1, Min(TotalSize - N, N))

\* the sampler asserts that the padding reached total_size
SamplerOk == Len(PaddedIndices) = TotalSize

\* rank r takes every nranks-th index, starting at its own rank
ShardIndices(r) == [k \in 1..NumSamples |-> PaddedIndices[r + 1 + (k - 1) * nranks]]

(* floats in the accumulators *)
\* a Python float (np = FALSE) or a numpy float64 (np = TRUE)
PyFloat(v) == [np |-> FALSE, val |-> v]
NpFloat(v) == [np |-> TRUE, val |-> v]

FAdd(a, b) == IF IsFin(a) /\ IsFin(b) THEN Fin(a.n * b.d + b.n * a.d, a.d * b.d) ELSE NaN

RECURSIVE FSum(_)
FSum(s) == IF s = <<>> THEN Fin(0, 1) ELSE FAdd(s[1], FSum(Tail(s)))

\* np.mean(per_channel_dice)
MeanIsSum(v) == FSum(v)
Mean(v) == FDiv(FSum(v), Len(v))

\* x /= n: a Python float raises ZeroDivisionError on n = 0, numpy divides
TrueDivNumpy(x, n) == [raised |-> FALSE, val |-> FDiv(x.val, n)]
TrueDiv(x, n) ==
    IF n = 0 /\ ~x.np THEN [raised |-> TRUE, val |-> x.val]
    ELSE [raised |-> FALSE, val |-> FDiv(x.val, n)]

(* files and reports *)
FileKinds == {"pred", "label", "img"}
SaveNameNoIter(i, kind) == <<0, kind>>
SaveName(i, kind) == <<i, kind>>
\* the directory: a function from the names of the files in it
NoFiles == <<>>
Put(dir, name, content) ==
    [n \in (DOMAIN dir) \cup {name} |-> IF n = name THEN content ELSE dir[n]]

ProgbarEveryRank(local_rank) == print_detail
ProgbarGuard(local_rank) == local_rank = 0 /\ print_detail

Report(r, kind) == [rank |-> r, kind |-> kind]

NoCur == [idx |-> -1, im |-> Arr("none", RatInt(0)), label |-> Arr("none", RatInt(0)),
          pred |-> Arr("none", RatInt(0)), logits |-> 0]

\* F.softmax(logits, axis=1) and metric.auc_roc are external; their values
\* are kept as the expressions they are applied to.
Softmax(l) == [softmax_of |-> l]
AucRoc(logits, labels) == [logits |-> logits, labels |-> labels]
NoAuc == AucRoc(<<>>, <<>>)

\* mdice = 0.0 (line 86) at the start of every call
StaleMdice(r) == mdice[r]
InitialMdice(r) == PyFloat(Fin(0, 1))

EvalOff ==
    /\ dataset = <<>>
    /\ nranks = 1
    /\ print_detail = FALSE
    /\ auc_roc = FALSE
    /\ save_dir = FALSE
    /\ pc = [r \in {0} |-> "off"]
    /\ calls = [r \in {0} |-> 0]
    /\ total_iters = [r \in {0} |-> 0]
    /\ iter = [r \in {0} |-> 0]
    /\ cur = [r \in {0} |-> NoCur]
    /\ mdice = [r \in {0} |-> PyFloat(Fin(0, 1))]
    /\ channel_dice_array = [r \in {0} |-> <<>>]
    /\ loss_all = [r \in {0} |-> Fin(0, 1)]
    /\ logits_all = [r \in {0} |-> <<>>]
    /\ label_all = [r \in {0} |-> <<>>]
    /\ returned = [r \in {0} |-> <<>>]
    /\ err = [r \in {0} |-> "none"]
    /\ inferLog = [r \in {0} |-> <<>>]
    /\ files = NoFiles
    /\ wrote = NoFiles
    /\ saved = [r \in {0} |-> {}]
    /\ reports = {}

\* The processes before their first evaluate() call.
EvalReady ==
    /\ dataset \in Datasets
    /\ nranks \in 1..MaxRanks
    /\ print_detail \in BOOLEAN
    /\ auc_roc \in BOOLEAN
    /\ save_dir \in BOOLEAN
    /\ pc = [r \in Ranks |-> "idle"]
    /\ calls = [r \in Ranks |-> 0]
    /\ total_iters = [r \in Ranks |-> 0]
    /\ iter = [r \in Ranks |-> 0]
    /\ cur = [r \in Ranks |-> NoCur]
    /\ mdice = [r \in Ranks |-> PyFloat(Fin(0, 1))]
    /\ channel_dice_array = [r \in Ranks |-> <<>>]
    /\ loss_all = [r \in Ranks |-> Fin(0, 1)]
    /\ logits_all = [r \in Ranks |-> <<>>]
    /\ label_all = [r \in Ranks |-> <<>>]
    /\ returned = [r \in Ranks |-> <<>>]
    /\ err = [r \in Ranks |-> "none"]
    /\ inferLog = [r \in Ranks |-> <<>>]
    /\ files = NoFiles
    /\ wrote = NoFiles
    /\ saved = [r \in Ranks |-> {}]
    /\ reports = {}

\* Lines 53-88: the sampler and loader are built, the start line is logged
\* and the aggregates are set.
EvalStart(r) ==
    /\ pc[r] = "idle"
    /\ calls[r] < MaxCalls
    /\ calls' = [calls EXCEPT ![r] = @ + 1]
    /\ total_iters' = [total_iters EXCEPT ![r] = NumSamples]
    /\ logits_all' = [logits_all EXCEPT ![r] = <<>>]
    /\ label_all' = [label_all EXCEPT ![r] = <<>>]
    /\ reports' = IF print_detail THEN reports \cup {Report(r, "start")} ELSE reports
    /\ mdice' = [mdice EXCEPT ![r] = InitialMdice(r)]
    /\ channel_dice_array' = [channel_dice_array EXCEPT ![r] = <<>>]
    /\ loss_all' = [loss_all EXCEPT ![r] = Fin(0, 1)]
    /\ iter' = [iter EXCEPT ![r] = 0]
    /\ cur' = [cur EXCEPT ![r] = NoCur]
    /\ inferLog' = [inferLog EXCEPT ![r] = <<>>]
    /\ saved' = [saved EXCEPT ![r] = {}]
    /\ pc' = [pc EXCEPT ![r] = "loop"]
    /\ UNCHANGED <<config, returned, err, files, wrote>>
    /\ UNCHANGED normVars

\* Lines 91-99: the loader yields the next sample of the rank's shard, the
\* label is cast and infer.inference runs.
IterInfer(r) ==
    /\ pc[r] = "loop"
    /\ iter[r] < total_iters[r]
    /\ IF ~SamplerOk
       THEN /\ pc' = [pc EXCEPT ![r] = "raised"]
            /\ err' = [err EXCEPT ![r] = "AssertionError"]
            /\ UNCHANGED <<cur, inferLog>>
       ELSE LET idx == ShardIndices(r)[iter[r] + 1]
                s == dataset[idx + 1]
            IN  /\ cur' = [cur EXCEPT ![r] = [idx |-> idx, im |-> s.im,
                                              label |-> AsInt64(s.label),
                                              pred |-> s.pred, logits |-> s.logits]]
                /\ inferLog' = [inferLog EXCEPT ![r] = Append(@, <<iter[r], idx>>)]
                /\ pc' = [pc EXCEPT ![r] = IF save_dir THEN "save" ELSE "accumulate"]
                /\ UNCHANGED err
    /\ UNCHANGED <<config, calls, total_iters, iter, mdice, channel_dice_array,
                   loss_all, logits_all, label_all, returned, reports, files, wrote,
                   saved>>
    /\ UNCHANGED normVars

\* Lines 104-113: the three np.save calls and the confirmation line, taken
\* as one step of the rank.
Save(r) ==
    /\ pc[r] = "save"
    /\ LET i == iter[r]
           put(dir, kind, a) == Put(dir, SaveName(i, kind), a)
       IN  /\ files' = put(put(put(files, "pred", NpSave(cur[r].pred)),
                               "label", NpSave(cur[r].label)),
                           "img", NpSave(cur[r].im))
           /\ wrote' = put(put(put(wrote, "pred", cur[r].idx), "label", cur[r].idx),
                           "img", cur[r].idx)
           /\ saved' = [saved EXCEPT ![r] = @ \cup
                            {<<SaveName(i, "pred"), NpSave(cur[r].pred)>>,
                             <<SaveName(i, "label"), NpSave(cur[r].label)>>,
                             <<SaveName(i, "img"), NpSave(cur[r].im)>>}]
    /\ reports' = reports \cup {Report(r, "save")}
    /\ pc' = [pc EXCEPT ![r] = "accumulate"]
    /\ UNCHANGED <<config, calls, locals, returned, err, inferLog>>
    /\ UNCHANGED normVars

\* Lines 123-154: loss and Dice of the sample, the AUC collections, the
\* running sums and the progress bar.
Accumulate(r) ==
    /\ pc[r] = "accumulate"
    /\ LET s == dataset[cur[r].idx + 1]
           per_channel_dice == s.dice
       IN  /\ IF auc_roc
              THEN /\ logits_all' = [logits_all EXCEPT ![r] = Append(@, Softmax(cur[r].logits))]
                   /\ label_all' = [label_all EXCEPT ![r] = Append(@, cur[r].label)]
              ELSE UNCHANGED <<logits_all, label_all>>
           /\ loss_all' = [loss_all EXCEPT ![r] = FAdd(@, s.loss)]
           /\ mdice' = [mdice EXCEPT ![r] = NpFloat(FAdd(@.val, Mean(per_channel_dice)))]
           /\ channel_dice_array' =
                 [channel_dice_array EXCEPT ![r] =
                     IF Len(@) = 0 THEN per_channel_dice
                     ELSE [c \in 1..Len(@) |-> FAdd(@[c], per_channel_dice[c])]]
    /\ reports' = IF ProgbarGuard(r) THEN reports \cup {Report(r, "progbar")} ELSE reports
    /\ iter' = [iter EXCEPT ![r] = @ + 1]
    /\ pc' = [pc EXCEPT ![r] = "loop"]
    /\ UNCHANGED <<config, calls, total_iters, cur, returned, err, inferLog, files, wrote,
                   saved>>
    /\ UNCHANGED normVars

\* Lines 156-176: the sums are divided by total_iters, the result record is
\* built, the summary is logged and the record returned.
Finalize(r) ==
    /\ pc[r] = "loop"
    /\ iter[r] = total_iters[r]
    /\ LET q == TrueDiv(mdice[r], total_iters[r])
       IN  IF q.raised
           THEN /\ pc' = [pc EXCEPT ![r] = "raised"]
                /\ err' = [err EXCEPT ![r] = "ZeroDivisionError"]
                /\ UNCHANGED <<mdice, channel_dice_array, loss_all, returned, reports>>
           ELSE /\ mdice' = [mdice EXCEPT ![r] = [@ EXCEPT !.val = q.val]]
                /\ channel_dice_array' =
                      [channel_dice_array EXCEPT ![r] =
                          [c \in 1..Len(@) |-> FDiv(@[c], total_iters[r])]]
                /\ loss_all' = [loss_all EXCEPT ![r] = FDiv(@, total_iters[r])]
                /\ returned' =
                      [returned EXCEPT ![r] =
                          Append(@, [mdice |-> q.val,
                                     auc_roc |-> IF auc_roc
                                                 THEN AucRoc(logits_all[r], label_all[r])
                                                 ELSE NoAuc])]
                /\ reports' = IF print_detail
                              THEN reports \cup {Report(r, "summary"), Report(r, "classdice")}
                              ELSE reports
                /\ pc' = [pc EXCEPT ![r] = "idle"]
                /\ UNCHANGED err
    /\ UNCHANGED <<config, calls, total_iters, iter, cur, logits_all, label_all,
                   inferLog, files, wrote, saved>>
    /\ UNCHANGED normVars

(* --------------------------- the specifications ------------------------ *)
Init == EvalReady /\ NormOff

Next ==
    \/ \E r \in Ranks : EvalStart(r)
    \/ \E r \in Ranks : IterInfer(r)
    \/ \E r \in Ranks : Save(r)
    \/ \E r \in Ranks : Accumulate(r)
    \/ \E r \in Ranks : Finalize(r)

Spec == Init /\ [][Next]_vars

InitNorm == NormReady /\ EvalOff

NextNorm ==
    \/ CallNormalize /\ UNCHANGED evalVars
    \/ CallHUNorm /\ UNCHANGED evalVars
    \/ CallLabelRemap /\ UNCHANGED evalVars

SpecNorm == InitNorm /\ [][NextNorm]_vars

(* ------------------------ properties of evaluate() --------------------- *)
\* rank r has returned from a call and is between calls
Returned(r) == pc[r] = "idle" /\ returned[r] # <<>>
LastResult(r) == returned[r][Len(returned[r])]

\* the sum of all per-class Dice values of the dataset, as an exact rational
RECURSIVE RatSum(_)
RatSum(s) == IF s = <<>> THEN RatInt(0)
             ELSE RatAdd([n |-> s[1].n, d |-> s[1].d], RatSum(Tail(s)))
RECURSIVE DiceTotal(_)
DiceTotal(ds) == IF ds = <<>> THEN RatInt(0)
                 ELSE RatAdd(RatSum(ds[1].dice), DiceTotal(Tail(ds)))

\* C1: in a single process, a call over a non-empty dataset of N samples
\* calls infer.inference exactly N times, iteration i on sample i, and the
\* mdice it returns is the mean over the samples of each sample's mean
\* per-class Dice: mdice * N * NumClasses = the sum of all Dice values.
C1_MeanOfMeans ==
    (nranks = 1 /\ dataset # <<>> /\ Returned(0)) =>
        LET N == Len(dataset)
            m == LastResult(0).mdice
            total == DiceTotal(dataset)
            NumClasses == Len(dataset[1].dice)
        IN  /\ inferLog[0] = [i \in 1..N |-> <<i - 1, i - 1>>]
            /\ IsFin(m)
            /\ m.n * N * NumClasses * total.d = total.n * m.d

C1_Witness ==
    /\ nranks = 1
    /\ Len(dataset) = 2
    /\ dataset[1] # dataset[2]
    /\ Returned(0)

\* C2: a call whose loader yields nothing ends in ZeroDivisionError at the
\* finalization and returns nothing, every mdice returned is a finite
\* number, and on a single-sample dataset the divisor total_iters is 1.
C2_EmptyRaises ==
    \A r \in Ranks :
        /\ (dataset = <<>> /\ calls[r] >= 1) =>
              /\ total_iters[r] = 0
              /\ returned[r] = <<>>
              /\ pc[r] \in {"loop", "raised"}
              /\ (pc[r] = "raised" => err[r] = "ZeroDivisionError")
        /\ \A i \in DOMAIN returned[r] : IsFin(returned[r][i].mdice)
        /\ (Len(dataset) = 1 /\ calls[r] >= 1) => total_iters[r] = 1

C2_Witness ==
    \E r \in Ranks : dataset = <<>> /\ pc[r] = "raised" /\ err[r] = "ZeroDivisionError"

\* C3 as stated: in a multi-rank run with print_detail, every reporting call
\* is made by local_rank 0.
C3_OnlyRank0Reports ==
    (nranks > 1 /\ print_detail) => \A e \in reports : e.rank = 0

\* C3 amended: in a multi-rank run with print_detail, progress-bar updates
\* are made by local_rank 0 only, while the logger calls (start line, save
\* confirmation, final summary, per-class Dice line) are made by every rank.
C3_ProgbarOnlyRank0 ==
    (nranks > 1 /\ print_detail) =>
        /\ \A e \in reports : e.kind = "progbar" => e.rank = 0
        /\ \A r \in Ranks :
              /\ calls[r] >= 1 => Report(r, "start") \in reports
              /\ (save_dir /\ pc[r] = "accumulate") => Report(r, "save") \in reports
              /\ returned[r] # <<>> =>
                    {Report(r, "summary"), Report(r, "classdice")} \subseteq reports

C3_Witness ==
    /\ nranks > 1
    /\ print_detail
    /\ save_dir
    /\ Returned(0)
    /\ Returned(1)
    /\ Report(0, "progbar") \in reports
    /\ Report(1, "save") \in reports

\* the content np.save writes for the given kind of file of a sample
Content(s, kind) ==
    CASE kind = "pred" -> s.pred
      [] kind = "label" -> s.label
      [] kind = "img" -> s.im

C7_ResetEachCall ==
    \A r \in Ranks :
        /\ (pc[r] = "loop" /\ iter[r] = 0) =>
              /\ mdice[r] = PyFloat(Fin(0, 1))
              /\ loss_all[r] = Fin(0, 1)
              /\ channel_dice_array[r] = <<>>
              /\ logits_all[r] = <<>>
              /\ label_all[r] = <<>>
        /\ \A i, j \in DOMAIN returned[r] : returned[r][i] = returned[r][j]

C7_Witness ==
    \E r \in Ranks : Len(returned[r]) >= 2 /\ auc_roc /\ LastResult(r).mdice.n > 0

\* C10: when all ranks of a multi-rank run with a save_dir have returned,
\* every sample a rank evaluated is still on disk under the rank's iteration
\* index: no file of one rank was overwritten with another sample.
C10_NoOverwrite ==
    (nranks > 1 /\ save_dir /\ SamplerOk /\ \A r \in Ranks : Returned(r)) =>
        \A r \in Ranks : \A k \in 1..NumSamples : \A kind \in FileKinds :
            /\ <<k - 1, kind>> \in DOMAIN wrote
            /\ wrote[<<k - 1, kind>>] = ShardIndices(r)[k]

(* --------------------- properties of the normalizers ------------------- *)
\* the label map applied to the original value of a voxel
RECURSIVE Lookup(_, _)
Lookup(v, items) ==
    IF items = <<>> THEN v
    ELSE IF VoxEq(v, items[1][1]) THEN Fin(items[1][2], 1)
    ELSE Lookup(v, Tail(items))

\* C5: label_remap on an ndarray maps every voxel by its original value:
\* a voxel that was a key k holds map_dict[k], any other voxel is unchanged.
C5_MapsByOriginal ==
    (fn = "label_remap" /\ npc = "returned" /\ isNd) =>
        /\ Len(ret) = Len(image0)
        /\ \A i \in 1..Len(image0) : ret[i] = Lookup(image0[i], args.map_dict.items)

\* C6 as stated: after Normalize, HUNorm or label_remap the array the
\* caller passed holds the values it held before the call.
C6_Pure ==
    (npc = "returned" /\ isNd) => image = image0

\* C6 amended: Normalize leaves the caller's array as it was.  HUNorm leaves
\* its finite voxels as they were, and writes HU_nan over the NaN voxels
\* (float max / min over the infinite ones) of an ndarray argument; its
\* result is a separate array.  label_remap returns the caller's own array,
\* rewritten in place.
C6_InPlace ==
    npc = "returned" =>
        /\ fn = "Normalize" => (image = image0 /\ ~alias)
        /\ fn = "HUNorm" =>
              /\ ~alias
              /\ Len(image) = Len(image0)
              /\ \A i \in 1..Len(image0) :
                    /\ IsFin(image0[i]) => image[i] = image0[i]
                    /\ (isNd /\ image0[i] = NaN) => image[i] = Fin(args.nan, 1)
                    /\ (isNd /\ image0[i] = PInf) => image[i] = PHuge
                    /\ (isNd /\ image0[i] = NInf) => image[i] = NHuge
              /\ ~isNd => image = image0
        /\ fn = "label_remap" => (alias /\ image = ret)

C6_Witness ==
    /\ npc = "returned"
    /\ fn = "HUNorm"
    /\ isNd
    /\ \E i \in 1..Len(image0) : image0[i] = NaN /\ image[i] # NaN

\* C8: for bounds min_val < max_val, Normalize sends every non-NaN voxel v
\* to clamp((v - min_val) / (max_val - min_val), 0, 1), a value in [0, 1];
\* with bounds 0 and 1 it keeps the voxels in [0, 1] and sends the others
\* to the nearer bound.
C8_NormalizeClamps ==
    (fn = "Normalize" /\ npc = "returned" /\ args.lo < args.hi) =>
        /\ Len(ret) = Len(image0)
        /\ \A i \in 1..Len(image0) :
              LET v == image0[i]
                  out == ret[i]
                  num == v.n - args.lo * v.d
                  den == v.d * (args.hi - args.lo)
              IN  /\ v = PInf => out = Fin(1, 1)
                  /\ v = NInf => out = Fin(0, 1)
                  /\ IsFin(v) =>
                        /\ IsFin(out)
                        /\ 0 <= out.n /\ out.n <= out.d
                        /\ num <= 0 => out.n = 0
                        /\ num >= den => out.n = out.d
                        /\ (0 < num /\ num < den) => out.n * den = num * out.d
                        /\ (args.lo = 0 /\ args.hi = 1 /\ 0 <= v.n /\ v.n <= v.d) => out = v

C8_Witness ==
    /\ fn = "Normalize"
    /\ npc = "returned"
    /\ args.lo = 0
    /\ args.hi = 1
    /\ image0 = <<Fin(1, 2), Fin(2, 1)>>
    /\ ret = <<Fin(1, 2), Fin(1, 1)>>

\* the volume with its NaN voxels replaced and every other voxel kept
ReplaceNaN(vol, nan) == [i \in 1..Len(vol) |-> IF vol[i] = NaN THEN Fin(nan, 1) ELSE vol[i]]

\* C9: for HU_min # HU_max, HUNorm returns what Normalize returns on the
\* volume with its NaN voxels replaced by HU_nan; on an all-NaN volume that
\* is Normalize(HU_nan) at every voxel.
C9_HUNormIsNormalize ==
    (fn = "HUNorm" /\ npc = "returned" /\ args.lo # args.hi) =>
        /\ ret = Normalize(ReplaceNaN(image0, args.nan), TRUE, args.lo, args.hi).ret
        /\ (\A i \in 1..Len(image0) : image0[i] = NaN) =>
              \A i \in 1..Len(ret) :
                  ret[i] = Normalize(<<Fin(args.nan, 1)>>, TRUE, args.lo, args.hi).ret[1]

C9_Witness ==
    /\ fn = "HUNorm"
    /\ npc = "returned"
    /\ args.lo # args.hi
    /\ Len(image0) = MaxLen
    /\ \A i \in 1..Len(image0) : image0[i] = NaN
    /\ ret[1] = Fin(1, 1)

====
